---- MODULE Spec2Model ----
(***************************************************************************)
(* Model of app.py: the posts table behind the module-level sqlite3        *)
(* connection `conn` and its single shared cursor `cur`, the               *)
(* BackgroundScheduler with its 'date' jobs, save_post (run by the front   *)
(* end's thread) and execute_post (run by the scheduler's pool threads),   *)
(* and the front end's parse paths for the backend's responses.            *)
(*                                                                         *)
(* One module instance is modelled: one conn, one cur, one scheduler, as   *)
(* lines 22-23 and 36-37 create them.  Every statement that touches shared *)
(* state (the cursor, the connection, the job store) is a step of its own, *)
(* so the threads interleave at the places the interpreter allows.         *)
(*                                                                         *)
(* Library behaviour the code relies on, as CPython's sqlite3 and          *)
(* APScheduler 3.x have it:                                                *)
(*  - cursor.execute marks the cursor busy while the statement runs,       *)
(*    discards the cursor's previous result set, and afterwards sets       *)
(*    cursor.lastrowid from the connection's last insert rowid;            *)
(*  - a call on a cursor that is busy in another thread is outside the     *)
(*    module's contract: it raises ProgrammingError ("Recursive use of     *)
(*    cursors not allowed") or faults the interpreter;                     *)
(*  - fetchone takes the next row of whatever result set the cursor holds; *)
(*  - connection.commit makes every change of the connection durable;      *)
(*  - a 'date' job is due once its run_date has passed; it is removed when *)
(*    it is handed to the pool, and a run that starts more than            *)
(*    misfire_grace_time late is skipped ("missed"); an exception of the   *)
(*    job function is logged and swallowed.                                *)
(***************************************************************************)
EXTENDS Integers, Sequences, FiniteSets, TLC

\* ------------------------------------------------------------------ bounds
MaxPosts == 2
MaxTime == 2
MaxWorkers == 2
MaxCalls == 2

\* BackgroundScheduler() job default misfire_grace_time, in seconds.
MisfireGraceTime == 1

Contents == {"a", "b"}
\* The run times a caller asks for: already reached at the start, or ahead.
RunAts == {0, MaxTime}
Workers == 1..MaxWorkers
\* Row ids the table can hold, and one id beyond them that never has a row.
Ids == 1..(MaxPosts + 1)

VARIABLES
    posts,        \* the posts table as conn sees it: id -> row
    durable,      \* the committed table (posts.db on disk)
    seq,          \* AUTOINCREMENT's sqlite_sequence: largest id ever assigned
    lastInsert,   \* the connection's last insert rowid
    cur,          \* the shared cursor: [locked, rows, lastrowid]
    scheduler,    \* the job store: set of [id, run_date]
    now,          \* the local clock, in seconds
    ui,           \* the front end's thread inside save_post
    wk,           \* the pool's threads inside execute_post
    crashed,      \* the interpreter faulted
    session,      \* st.session_state: [pillars, posts]
    page,         \* how the front end's last script run ended: [op, resp, outcome]
    called,       \* history: id -> direct calls of execute_post(id) begun
    retIds,       \* history: the ids save_post returned, in order
    started,      \* history: id -> runs of execute_post the scheduler started
    published,    \* history: id -> times the publish (sleep, then UPDATE) began
    outcome       \* history: id -> how the last finished execute_post(id) ended

vars == <<posts, durable, seq, lastInsert, cur, scheduler, now, ui, wk, crashed,
          session, page, called, retIds, started, published, outcome>>

\* What the core (save_post, the scheduler, execute_post) leaves alone.
front == <<session, called>>

\* ------------------------------------------------------------ conversions
\* datetime.isoformat(): the text of an instant.
isoformat(tm) == <<"iso", tm>>

\* datetime.fromisoformat(): the instant of a text.
fromisoformat(s) == s[2]

\* ------------------------------------------------------------------ store
\* INSERT INTO posts (content, scheduled_at, status, created_at) VALUES (?,?,?,?)
InsertStatus == "scheduled"

NewRow(content, run_at_iso, created) ==
    [content |-> content, scheduled_at |-> run_at_iso,
     status |-> InsertStatus, created_at |-> created]

\* Mutant: the SELECT without its WHERE clause.
SelectById_no_where(db, post_id) ==
    [k \in 1..Len(db) |-> [content |-> db[k].content, status |-> db[k].status]]

\* SELECT content, status FROM posts WHERE id=?
SelectById(db, post_id) ==
    IF post_id \in DOMAIN db
    THEN << [content |-> db[post_id].content, status |-> db[post_id].status] >>
    ELSE << >>

\* Mutant: the UPDATE writes another status text.
UpdatePosted_other_text(db, post_id) ==
    [i \in DOMAIN db |->
        IF i = post_id THEN [db[i] EXCEPT !.status = "published"] ELSE db[i]]

\* Mutant: the UPDATE without its WHERE clause.
UpdatePosted_no_where(db, post_id) ==
    [i \in DOMAIN db |-> [db[i] EXCEPT !.status = "posted"]]

\* UPDATE posts SET status='posted' WHERE id=?
UpdatePosted(db, post_id) ==
    [i \in DOMAIN db |->
        IF i = post_id THEN [db[i] EXCEPT !.status = "posted"] ELSE db[i]]

\* A call on the cursor while another thread is inside execute.
CursorBusy == cur.locked

\* cursor.execute begins: the cursor is marked busy, its result set dropped.
CursorEnter == [cur EXCEPT !.locked = TRUE, !.rows = << >>]

\* cursor.execute ends with the result set `rows`.
CursorLeave(rows, rowid) == [locked |-> FALSE, rows |-> rows, lastrowid |-> rowid]

IdleUi == [pc |-> "idle", content |-> "", run_at |-> isoformat(0),
           created |-> isoformat(0), idx |-> 0]
NoPage == [op |-> "none", resp |-> "", outcome |-> "none"]
Unset == [t |-> "unset"]
IdleWk == [pc |-> "idle", id |-> 0]

\* ------------------------------------------------------------------- Init
Init ==
    /\ posts = << >>
    /\ durable = << >>
    /\ seq = 0
    /\ lastInsert = 0
    /\ cur = [locked |-> FALSE, rows |-> << >>, lastrowid |-> 0]
    /\ scheduler = {}
    /\ now = 0
    /\ ui = IdleUi
    /\ wk = [w \in Workers |-> IdleWk]
    /\ crashed = FALSE
    /\ session = [pillars |-> Unset, posts |-> Unset]
    /\ page = NoPage
    /\ called = [i \in Ids |-> 0]
    /\ retIds = << >>
    /\ started = [i \in Ids |-> 0]
    /\ published = [i \in Ids |-> 0]
    /\ outcome = [i \in Ids |-> "none"]

\* ------------------------------------------------- the backend's responses
\* JSON values: [t |-> "null" | "num" | "str" | "list" | "dict", v |-> ...].
JNull == [t |-> "null"]
JNum(n) == [t |-> "num", v |-> n]
JStr(x) == [t |-> "str", v |-> x]
JList(xs) == [t |-> "list", v |-> xs]
JDict(f) == [t |-> "dict", v |-> f]

\* What the backend may answer to the analysis prompt (line 74); "" is what
\* call_groq returns when the call failed (line 59).
AnalysisResponses ==
    {"", "Sure! Here is the JSON", "[\"AI\"]", "{\"industry\":\"tech\"}",
     "{\"content_pillars\":[\"AI\",\"Data\"]}", "{\"content_pillars\":7}"}

\* What the backend may answer to the generation prompt (line 84).
GenerationResponses ==
    {"", "Here are your posts", "{\"post\":\"a\"}", "[\"a\"]",
     "[{\"post\":\"a\",\"hashtags\":[\"#x\"]}]", "[{\"hashtags\":[\"#x\"]}]",
     "[{\"post\":\"a\"},{\"hashtags\":[\"#x\"]}]"}

\* json.loads: the value of a text, or a JSONDecodeError.
json_loads(s) ==
    CASE s = "[\"AI\"]" -> [ok |-> TRUE, value |-> JList(<<JStr("AI")>>)]
      [] s = "{\"industry\":\"tech\"}" ->
            [ok |-> TRUE, value |-> JDict("industry" :> JStr("tech"))]
      [] s = "{\"content_pillars\":[\"AI\",\"Data\"]}" ->
            [ok |-> TRUE,
             value |-> JDict("content_pillars" :> JList(<<JStr("AI"), JStr("Data")>>))]
      [] s = "{\"content_pillars\":7}" ->
            [ok |-> TRUE, value |-> JDict("content_pillars" :> JNum(7))]
      [] s = "{\"post\":\"a\"}" ->
            [ok |-> TRUE, value |-> JDict("post" :> JStr("a"))]
      [] s = "[\"a\"]" -> [ok |-> TRUE, value |-> JList(<<JStr("a")>>)]
      [] s = "[{\"post\":\"a\",\"hashtags\":[\"#x\"]}]" ->
            [ok |-> TRUE,
             value |-> JList(<<JDict("post" :> JStr("a") @@
                                     "hashtags" :> JList(<<JStr("#x")>>))>>)]
      [] s = "[{\"hashtags\":[\"#x\"]}]" ->
            [ok |-> TRUE,
             value |-> JList(<<JDict("hashtags" :> JList(<<JStr("#x")>>))>>)]
      [] s = "[{\"post\":\"a\"},{\"hashtags\":[\"#x\"]}]" ->
            [ok |-> TRUE,
             value |-> JList(<<JDict("post" :> JStr("a")),
                               JDict("hashtags" :> JList(<<JStr("#x")>>))>>)]
      [] OTHER -> [ok |-> FALSE, value |-> JNull]

\* Lines 40-47: the value, or None (here JNull) after showing the error.
safe_json_load(s) == IF json_loads(s).ok THEN json_loads(s).value ELSE JNull

\* ", ".join(x) raises TypeError unless x is an iterable of strings.
JoinRaises(x) ==
    CASE x.t = "unset" -> FALSE
      [] x.t = "str" -> FALSE
      [] x.t = "dict" -> FALSE
      [] x.t = "list" -> \E k \in DOMAIN x.v : x.v[k].t # "str"
      [] OTHER -> TRUE

\* Lines 144-145 for one draft: post['post'] raises KeyError on a dict
\* without the key; ", ".join(post.get('hashtags', [])) may raise TypeError.
DraftRaises(post) ==
    /\ post.t = "dict"
    /\ \/ "post" \notin DOMAIN post.v
       \/ /\ "hashtags" \in DOMAIN post.v
          /\ JoinRaises(post.v["hashtags"])

\* Lines 140-156: the loop over st.session_state['posts'] raises at one of
\* the drafts from the from-th on.
RenderFaults(drafts, from) ==
    /\ drafts.t = "list"
    /\ \E k \in DOMAIN drafts.v : k >= from /\ DraftRaises(drafts.v[k])

\* Lines 127-128: the pillars input joins st.session_state['pillars'].
PillarsFault(s) == JoinRaises(s.pillars)

\* The interpreter faults: the process is gone, and with it its threads, its
\* cursor and the scheduler's in-memory job store.
Fault ==
    /\ crashed' = TRUE
    /\ ui' = IdleUi
    /\ wk' = [w \in Workers |-> IdleWk]
    /\ cur' = [locked |-> FALSE, rows |-> << >>, lastrowid |-> 0]
    /\ scheduler' = {}

\* --------------------------------------------------------------- save_post
\* Lines 87-90: now = utcnow().isoformat(); cur.execute(INSERT ...) begins.
\* idx is the draft whose button called (0: a call from outside the page).
save_post_call(idx, content, run_at_iso) ==
    /\ ~crashed
    /\ ui.pc = "idle"
    /\ seq < MaxPosts
    /\ ~CursorBusy
    /\ cur' = CursorEnter
    /\ ui' = [pc |-> "insert", content |-> content, run_at |-> run_at_iso,
              created |-> isoformat(now), idx |-> idx]
    /\ UNCHANGED <<posts, durable, seq, lastInsert, scheduler, now, wk, crashed,
                   page, retIds, started, published, outcome>>
    /\ UNCHANGED front

\* Lines 89-90 on a cursor that a pool thread is executing on: the INSERT
\* raises out of save_post (and out of the script run), or the interpreter
\* faults.
save_post_call_busy ==
    /\ ~crashed
    /\ ui.pc = "idle"
    /\ seq < MaxPosts
    /\ CursorBusy
    /\ \/ /\ page' = [op |-> "schedule", resp |-> "", outcome |-> "fault"]
          /\ UNCHANGED <<ui, cur, scheduler, wk, crashed>>
       \/ /\ Fault
          /\ UNCHANGED page
    /\ UNCHANGED <<posts, durable, seq, lastInsert, now,
                   retIds, started, published, outcome>>
    /\ UNCHANGED front

\* Lines 89-90: the INSERT runs; AUTOINCREMENT assigns the next id.
save_post_insert ==
    /\ ~crashed
    /\ ui.pc = "insert"
    /\ seq' = seq + 1
    /\ posts' = [i \in DOMAIN posts \cup {seq'} |->
                    IF i = seq' THEN NewRow(ui.content, ui.run_at, ui.created)
                    ELSE posts[i]]
    /\ lastInsert' = seq'
    /\ cur' = CursorLeave(<< >>, lastInsert')
    /\ ui' = [ui EXCEPT !.pc = "commit"]
    /\ UNCHANGED <<durable, scheduler, now, wk, crashed, page, retIds, started,
                   published, outcome>>
    /\ UNCHANGED front

\* Line 91: conn.commit().
save_post_commit ==
    /\ ~crashed
    /\ ui.pc = "commit"
    /\ durable' = posts
    /\ ui' = [ui EXCEPT !.pc = "add_job"]
    /\ UNCHANGED <<posts, seq, lastInsert, cur, scheduler, now, wk, crashed,
                   page, retIds, started, published, outcome>>
    /\ UNCHANGED front

\* Lines 92-95: pid = cur.lastrowid; run_date = fromisoformat(run_at_iso);
\* scheduler.add_job(execute_post, 'date', run_date, args=[pid]); return pid.
\* Line 156 and the rest of the script run follow the return.
save_post_add_job ==
    /\ ~crashed
    /\ ui.pc = "add_job"
    /\ LET pid == cur.lastrowid
       IN /\ scheduler' = scheduler \cup
                 {[id |-> pid, run_date |-> fromisoformat(ui.run_at)]}
          /\ retIds' = Append(retIds, pid)
    /\ ui' = IdleUi
    /\ page' = [op |-> "schedule", resp |-> "",
                outcome |-> IF RenderFaults(session.posts, ui.idx + 1)
                            THEN "fault" ELSE "ok"]
    /\ UNCHANGED <<posts, durable, seq, lastInsert, cur, now, wk, crashed,
                   started, published, outcome>>
    /\ UNCHANGED front

\* ---------------------------------------------------------------- scheduler
\* The clock advances.
Tick ==
    /\ ~crashed
    /\ now < MaxTime
    /\ now' = now + 1
    /\ UNCHANGED <<posts, durable, seq, lastInsert, cur, scheduler, ui, wk,
                   crashed, page, retIds, started, published, outcome>>
    /\ UNCHANGED front

\* Mutant: a job is due as soon as it is added.
Due_at_once(j) == j.run_date >= 0

\* A 'date' job is due at or after its run_date.
Due(j) == j.run_date <= now

\* A run that starts more than misfire_grace_time late is skipped.
Misfired(j) == now - j.run_date > MisfireGraceTime

\* The pool's threads are interchangeable: the first idle one takes the run.
IdleWorkers == {w \in Workers : wk[w].pc = "idle"}
FreeWorker == IF IdleWorkers = {} THEN 0
              ELSE CHOOSE w \in IdleWorkers : \A v \in IdleWorkers : w <= v

\* Mutant: the job stays in the job store after its run is started.
job_run_stays(w, j) ==
    /\ ~crashed
    /\ j \in scheduler
    /\ j.run_date <= now
    /\ now - j.run_date <= MisfireGraceTime
    /\ started[j.id] < 2
    /\ wk[w].pc = "idle"
    /\ wk' = [wk EXCEPT ![w] = [pc |-> "select", id |-> j.id]]
    /\ started' = [started EXCEPT ![j.id] = @ + 1]
    /\ UNCHANGED <<posts, durable, seq, lastInsert, cur, scheduler, now, ui,
                   crashed, session, page, called, retIds, published, outcome>>

\* A due 'date' job leaves the job store and a pool thread calls
\* execute_post(pid).
job_run(w, j) ==
    /\ ~crashed
    /\ j \in scheduler
    /\ Due(j)
    /\ ~Misfired(j)
    /\ w = FreeWorker
    /\ scheduler' = scheduler \ {j}
    /\ wk' = [wk EXCEPT ![w] = [pc |-> "select", id |-> j.id]]
    /\ started' = [started EXCEPT ![j.id] = @ + 1]
    /\ UNCHANGED <<posts, durable, seq, lastInsert, cur, now, ui, crashed,
                   page, retIds, published, outcome>>
    /\ UNCHANGED front

\* A due 'date' job that is too late leaves the job store without running.
job_missed(j) ==
    /\ ~crashed
    /\ j \in scheduler
    /\ Due(j)
    /\ Misfired(j)
    /\ scheduler' = scheduler \ {j}
    /\ outcome' = [outcome EXCEPT ![j.id] = "missed"]
    /\ UNCHANGED <<posts, durable, seq, lastInsert, cur, now, ui, wk, crashed,
                   page, retIds, started, published>>
    /\ UNCHANGED front

\* ------------------------------------------------------------- execute_post
\* execute_post returns, or raises into its caller (the scheduler logs it).
Finish(w, how) ==
    /\ wk' = [wk EXCEPT ![w] = IdleWk]
    /\ outcome' = [outcome EXCEPT ![wk[w].id] = how]

\* A cursor call of execute_post on a busy cursor: it raises, or the
\* interpreter faults.
CursorMisuse(w) ==
    /\ ~crashed
    /\ CursorBusy
    /\ \/ /\ Finish(w, "raised")
          /\ UNCHANGED <<cur, scheduler, ui, crashed>>
       \/ /\ Fault
          /\ UNCHANGED outcome
    /\ UNCHANGED <<posts, durable, seq, lastInsert, now, page, retIds, started,
                   published>>
    /\ UNCHANGED front

\* Line 98: cur.execute(SELECT ...) begins.
execute_post_select(w) ==
    /\ ~crashed
    /\ wk[w].pc = "select"
    /\ ~CursorBusy
    /\ cur' = CursorEnter
    /\ wk' = [wk EXCEPT ![w].pc = "selecting"]
    /\ UNCHANGED <<posts, durable, seq, lastInsert, scheduler, now, ui, crashed,
                   page, retIds, started, published, outcome>>
    /\ UNCHANGED front

execute_post_select_busy(w) ==
    /\ wk[w].pc = "select"
    /\ CursorMisuse(w)

\* Line 98: the SELECT runs; the cursor holds its result set.
execute_post_select_run(w) ==
    /\ ~crashed
    /\ wk[w].pc = "selecting"
    /\ cur' = CursorLeave(SelectById(posts, wk[w].id), lastInsert)
    /\ wk' = [wk EXCEPT ![w].pc = "fetchone"]
    /\ UNCHANGED <<posts, durable, seq, lastInsert, scheduler, now, ui, crashed,
                   page, retIds, started, published, outcome>>
    /\ UNCHANGED front

\* Mutant: execute_post without the status guard of lines 102-103.
execute_post_fetchone_no_guard(w) ==
    /\ ~crashed
    /\ wk[w].pc = "fetchone"
    /\ ~cur.locked
    /\ IF cur.rows = << >>
       THEN /\ wk' = [wk EXCEPT ![w] = [pc |-> "idle", id |-> 0]]
            /\ outcome' = [outcome EXCEPT ![wk[w].id] = "returned"]
            /\ UNCHANGED cur
       ELSE /\ cur' = [cur EXCEPT !.rows = Tail(@)]
            /\ wk' = [wk EXCEPT ![w].pc = "sleep"]
            /\ UNCHANGED outcome
    /\ UNCHANGED <<posts, durable, seq, lastInsert, scheduler, now, ui, crashed,
                   session, page, called, retIds, started, published>>

\* Lines 98-103: rec = cur.fetchone(); return if there is no row, or if the
\* row read says 'posted'.
execute_post_fetchone(w) ==
    /\ ~crashed
    /\ wk[w].pc = "fetchone"
    /\ ~CursorBusy
    /\ IF cur.rows = << >>
       THEN /\ Finish(w, "returned")
            /\ UNCHANGED cur
       ELSE /\ cur' = [cur EXCEPT !.rows = Tail(@)]
            /\ IF Head(cur.rows).status = "posted"
               THEN Finish(w, "returned")
               ELSE /\ wk' = [wk EXCEPT ![w].pc = "sleep"]
                    /\ UNCHANGED outcome
    /\ UNCHANGED <<posts, durable, seq, lastInsert, scheduler, now, ui, crashed,
                   page, retIds, started, published>>
    /\ UNCHANGED front

execute_post_fetchone_busy(w) ==
    /\ wk[w].pc = "fetchone"
    /\ CursorMisuse(w)

\* Line 104: t.sleep(1), the simulated publish.
execute_post_sleep(w) ==
    /\ ~crashed
    /\ wk[w].pc = "sleep"
    /\ published' = [published EXCEPT ![wk[w].id] = @ + 1]
    /\ wk' = [wk EXCEPT ![w].pc = "update"]
    /\ UNCHANGED <<posts, durable, seq, lastInsert, cur, scheduler, now, ui,
                   crashed, page, retIds, started, outcome>>
    /\ UNCHANGED front

\* Line 105: cur.execute(UPDATE ...) begins.
execute_post_update(w) ==
    /\ ~crashed
    /\ wk[w].pc = "update"
    /\ ~CursorBusy
    /\ cur' = CursorEnter
    /\ wk' = [wk EXCEPT ![w].pc = "updating"]
    /\ UNCHANGED <<posts, durable, seq, lastInsert, scheduler, now, ui, crashed,
                   page, retIds, started, published, outcome>>
    /\ UNCHANGED front

execute_post_update_busy(w) ==
    /\ wk[w].pc = "update"
    /\ CursorMisuse(w)

\* Line 105: the UPDATE runs.
execute_post_update_run(w) ==
    /\ ~crashed
    /\ wk[w].pc = "updating"
    /\ posts' = UpdatePosted(posts, wk[w].id)
    /\ cur' = CursorLeave(<< >>, lastInsert)
    /\ wk' = [wk EXCEPT ![w].pc = "commit"]
    /\ UNCHANGED <<durable, seq, lastInsert, scheduler, now, ui, crashed,
                   page, retIds, started, published, outcome>>
    /\ UNCHANGED front

\* Line 106: conn.commit(); execute_post returns.
execute_post_commit(w) ==
    /\ ~crashed
    /\ wk[w].pc = "commit"
    /\ durable' = posts
    /\ Finish(w, "returned")
    /\ UNCHANGED <<posts, seq, lastInsert, cur, scheduler, now, ui, crashed,
                   page, retIds, started, published>>
    /\ UNCHANGED front

\* The steps of execute_post on a cursor no other thread is executing on.
execute_post_step(w) ==
    \/ execute_post_select(w)
    \/ execute_post_select_run(w)
    \/ execute_post_fetchone(w)
    \/ execute_post_sleep(w)
    \/ execute_post_update(w)
    \/ execute_post_update_run(w)
    \/ execute_post_commit(w)

\* ---------------------------------------------------------------- front end
\* A script run with "Analyze Profile" clicked: lines 115-123, then the rest
\* of the script (line 128, lines 140-156).  An exception nothing catches
\* ends the run where it is raised.
run_analyze(resp) ==
    /\ ~crashed
    /\ ui.pc = "idle"
    /\ LET analysis == safe_json_load(resp)
           invalid == analysis.t # "dict"
           pillars == IF ~invalid /\ "content_pillars" \in DOMAIN analysis.v
                      THEN analysis.v["content_pillars"]
                      ELSE session.pillars
           fault == JoinRaises(pillars) \/ RenderFaults(session.posts, 1)
       IN /\ session' = [session EXCEPT !.pillars = pillars]
          /\ page' = [op |-> "analyze", resp |-> resp,
                      outcome |-> IF fault THEN "fault"
                                  ELSE IF invalid THEN "error" ELSE "ok"]
    /\ UNCHANGED <<posts, durable, seq, lastInsert, cur, scheduler, now, ui, wk,
                   crashed, called, retIds, started, published, outcome>>

\* A script run with "Generate Posts" clicked: line 128, lines 131-137, then
\* lines 140-156.
run_generate(resp) ==
    /\ ~crashed
    /\ ui.pc = "idle"
    /\ LET drafts == safe_json_load(resp)
           invalid == drafts.t # "list"
           shown == IF invalid THEN session.posts ELSE drafts
       IN IF PillarsFault(session)
          THEN /\ page' = [op |-> "generate", resp |-> resp, outcome |-> "fault"]
               /\ UNCHANGED session
          ELSE /\ session' = [session EXCEPT !.posts = shown]
               /\ page' = [op |-> "generate", resp |-> resp,
                           outcome |-> IF RenderFaults(shown, 1) THEN "fault"
                                       ELSE IF invalid THEN "error" ELSE "ok"]
    /\ UNCHANGED <<posts, durable, seq, lastInsert, cur, scheduler, now, ui, wk,
                   crashed, called, retIds, started, published, outcome>>

\* The drafts whose "Schedule Post" button a script run reaches.
Reached ==
    IF PillarsFault(session) \/ session.posts.t # "list" THEN {}
    ELSE {idx \in DOMAIN session.posts.v :
            \A k \in 1..idx : ~DraftRaises(session.posts.v[k])}

\* Lines 153-155: "Schedule Post #idx" clicked with the edited text and the
\* date and time chosen: run_at = datetime.combine(sdate, stime).isoformat();
\* save_post(new_text, run_at).
schedule_click(idx, new_text, tm) ==
    /\ idx \in Reached
    /\ save_post_call(idx, new_text, isoformat(tm))

\* execute_post(post_id) called directly, by a caller that waits for it.
direct_call(post_id) ==
    /\ ~crashed
    /\ ui.pc = "idle"
    /\ \A w \in Workers : wk[w].pc = "idle"
    /\ called[post_id] < MaxCalls
    /\ called' = [called EXCEPT ![post_id] = @ + 1]
    /\ wk' = [wk EXCEPT ![FreeWorker] = [pc |-> "select", id |-> post_id]]
    /\ UNCHANGED <<posts, durable, seq, lastInsert, cur, scheduler, now, ui,
                   crashed, session, page, retIds, started, published, outcome>>

\* ------------------------------------------------------------ specification
\* The module with its scheduler running: save_post called from the front
\* end's thread, due jobs run by the pool.
Next ==
    \/ \E c \in Contents, tm \in RunAts : save_post_call(0, c, isoformat(tm))
    \/ save_post_call_busy
    \/ save_post_insert
    \/ save_post_commit
    \/ save_post_add_job
    \/ Tick
    \/ \E w \in Workers, j \in scheduler : job_run(w, j)
    \/ \E j \in scheduler : job_missed(j)
    \/ \E w \in Workers : execute_post_step(w)
    \/ \E w \in Workers : execute_post_select_busy(w)
    \/ \E w \in Workers : execute_post_fetchone_busy(w)
    \/ \E w \in Workers : execute_post_update_busy(w)

Spec == Init /\ [][Next]_vars

\* The front end alone: script runs that analyze, generate and schedule, with
\* no job due yet.
NextUI ==
    \/ \E r \in AnalysisResponses : run_analyze(r)
    \/ \E r \in GenerationResponses : run_generate(r)
    \/ \E idx \in Reached, c \in Contents, tm \in RunAts : schedule_click(idx, c, tm)
    \/ save_post_insert
    \/ save_post_commit
    \/ save_post_add_job

SpecUI == Init /\ [][NextUI]_vars

\* A table posts.db may hold when the module is loaded: rows 1..n, each
\* 'scheduled' or 'posted'.
StoredRows ==
    [content : Contents, scheduled_at : {isoformat(0)},
     status : {"scheduled", "posted"}, created_at : {isoformat(0)}]
StoredTables == UNION {[1..n -> StoredRows] : n \in 0..MaxPosts}

\* The module loaded on a stored table, no job registered.
InitSeq ==
    /\ posts \in StoredTables
    /\ durable = posts
    /\ seq = Len(posts)
    /\ lastInsert = 0
    /\ cur = [locked |-> FALSE, rows |-> << >>, lastrowid |-> 0]
    /\ scheduler = {}
    /\ now = 0
    /\ ui = IdleUi
    /\ wk = [w \in Workers |-> IdleWk]
    /\ crashed = FALSE
    /\ session = [pillars |-> Unset, posts |-> Unset]
    /\ page = NoPage
    /\ called = [i \in Ids |-> 0]
    /\ retIds = << >>
    /\ started = [i \in Ids |-> 0]
    /\ published = [i \in Ids |-> 0]
    /\ outcome = [i \in Ids |-> "none"]

\* execute_post called directly, one call after the other.
NextSeq ==
    \/ \E i \in Ids : direct_call(i)
    \/ \E w \in Workers : execute_post_step(w)

SpecSeq == InitSeq /\ [][NextSeq]_vars

\* ------------------------------------------------------------------ claims
\* C1: every post's status is 'scheduled' or 'posted'; a new row starts as
\* 'scheduled'; a status only ever changes from 'scheduled' to 'posted', so a
\* post that is 'posted' stays 'posted'.
C1_StatusForwardOnly ==
    [][ /\ \A i \in DOMAIN posts' : posts'[i].status \in {"scheduled", "posted"}
        /\ \A i \in DOMAIN posts' \ DOMAIN posts : posts'[i].status = "scheduled"
        /\ \A i \in DOMAIN posts \cap DOMAIN posts' :
              posts[i].status = "posted" => posts'[i].status = "posted" ]_vars

\* A post has been posted by its execute_post while another is still scheduled.
C1_Witness ==
    \E i, j \in DOMAIN posts :
        /\ posts[i].status = "posted"
        /\ outcome[i] = "returned"
        /\ posts[j].status = "scheduled"

\* A call of save_post ends in this step: it returns, or its INSERT raises.
SaveEnds ==
    \/ ui.pc = "add_job" /\ ui'.pc = "idle" /\ ~crashed'
    \/ ui.pc = "idle" /\ page' # page /\ page'.op = "schedule"
                      /\ page'.outcome = "fault"

\* C2: every call of save_post returns a new id greater than every id
\* returned before, and at the return the row of that id is 'scheduled' and
\* holds the content and scheduled_at passed, also while execute_post runs
\* on the shared cursor.
C2_ScheduleReturnsFreshId ==
    [][ SaveEnds =>
          /\ Len(retIds') = Len(retIds) + 1
          /\ LET pid == retIds'[Len(retIds')]
             IN /\ \A k \in 1..Len(retIds) : retIds[k] < pid
                /\ pid \in DOMAIN posts'
                /\ posts'[pid].status = "scheduled"
                /\ posts'[pid].content = ui.content
                /\ posts'[pid].scheduled_at = ui.run_at ]_vars

\* execute_post(i) has run and ended: it returned, or it raised.
Finished(i) == outcome[i] \in {"returned", "raised"}

\* C3: two posts scheduled with the same run_at are both 'posted' once both
\* their execute_post callbacks have ended, whatever the interleaving.
C3_SameRunAtBothPosted ==
    \A i, j \in DOMAIN posts :
        ( /\ i # j
          /\ posts[i].scheduled_at = posts[j].scheduled_at
          /\ Finished(i)
          /\ Finished(j) )
        => (posts[i].status = "posted" /\ posts[j].status = "posted")

\* C4: a post whose run_at was not ahead of the clock when it was scheduled
\* is 'posted' once the scheduler is through with its job.
C4_PastRunAtPosted ==
    \A i \in DOMAIN posts :
        ( /\ fromisoformat(posts[i].scheduled_at) <= fromisoformat(posts[i].created_at)
          /\ outcome[i] # "none" )
        => posts[i].status = "posted"

\* C8: a post that is 'posted' has a scheduled_at that the clock has reached.
C8_NotPostedEarly ==
    \A i \in DOMAIN posts :
        posts[i].status = "posted" => fromisoformat(posts[i].scheduled_at) <= now

\* A post scheduled ahead of the clock has been posted.
C8_Witness ==
    \E i \in DOMAIN posts :
        /\ posts[i].status = "posted"
        /\ fromisoformat(posts[i].scheduled_at) > fromisoformat(posts[i].created_at)

\* C9: no step removes a row or changes a row's content, scheduled_at or
\* created_at; a row changes only by the UPDATE of the execute_post called
\* with its id, and only in its status.
C9_ExecuteFrame ==
    [][ /\ DOMAIN posts \subseteq DOMAIN posts'
        /\ \A i \in DOMAIN posts :
              /\ posts'[i].content = posts[i].content
              /\ posts'[i].scheduled_at = posts[i].scheduled_at
              /\ posts'[i].created_at = posts[i].created_at
              /\ posts'[i] # posts[i] =>
                    \E w \in Workers : wk[w].pc = "updating" /\ wk[w].id = i ]_vars

\* An execute_post has posted its row while another row exists unposted.
C9_Witness ==
    \E i, j \in DOMAIN posts :
        /\ i # j
        /\ posts[i].status = "posted"
        /\ posts[j].status = "scheduled"
        /\ durable = posts

\* The jobs of post i: pending, running, and those that ran or were missed.
Running(i) == {w \in Workers : wk[w].pc # "idle" /\ wk[w].id = i}

\* C10: a job enters the job store only by save_post's add_job, one job for
\* the id it returns, whose row is committed by then; the scheduler starts at
\* most one execute_post per id, no two runs for one id overlap, and a
\* running execute_post(id) has the row of id in the committed table.
C10_OneTimerPerPost ==
    /\ [](\A i \in Ids :
            /\ started[i] <= 1
            /\ Cardinality(Running(i)) <= 1
            /\ Cardinality({j \in scheduler : j.id = i}) + started[i] <= 1
            /\ Running(i) # {} => i \in DOMAIN durable)
    /\ [][ scheduler' \ scheduler # {} =>
              /\ ui.pc = "add_job"
              /\ \E j \in scheduler' :
                    /\ scheduler' \ scheduler = {j}
                    /\ j.id = retIds'[Len(retIds')]
                    /\ j.id \in DOMAIN durable
                    /\ started[j.id] = 0 ]_vars

\* An execute_post started by the scheduler is running while another post's
\* job is still in the job store.
C10_Witness ==
    \E i \in Ids :
        /\ Running(i) # {}
        /\ started[i] = 1
        /\ \E j \in scheduler : j.id # i

\* C5: with execute_post(id) called for an existing post one call after the
\* other, the post is 'posted' after every call that returned, the publish is
\* performed at most once, and a second or later call neither publishes nor
\* writes: it returns at the status guard.
C5_ExecuteTwice ==
    /\ [](\A i \in DOMAIN posts :
            /\ published[i] <= 1
            /\ (called[i] >= 1 /\ Running(i) = {}) =>
                  (outcome[i] = "returned" /\ posts[i].status = "posted"))
    /\ [][ \A w \in Workers :
              (wk[w].pc # "idle" /\ wk[w].id \in DOMAIN posts /\ called[wk[w].id] >= 2)
              => /\ posts' = posts
                 /\ durable' = durable
                 /\ published' = published
                 /\ wk'[w].pc \in {"selecting", "fetchone", "idle"} ]_vars

\* A post that was 'scheduled' has had execute_post called twice: published
\* once, posted.
C5_Witness ==
    \E i \in DOMAIN posts :
        /\ called[i] = 2
        /\ Running(i) = {}
        /\ published[i] = 1
        /\ posts[i].status = "posted"

\* C6: execute_post on an id without a row returns without raising, performs
\* no publish and leaves the table as it is.
C6_UnknownId ==
    /\ [](\A i \in Ids \ DOMAIN posts :
            /\ published[i] = 0
            /\ outcome[i] \in {"none", "returned"}
            /\ (called[i] >= 1 /\ Running(i) = {}) => outcome[i] = "returned")
    /\ [][ (\E w \in Workers : wk[w].pc # "idle" /\ wk[w].id \notin DOMAIN posts)
              => (posts' = posts /\ durable' = durable) ]_vars

\* execute_post has returned for an id without a row, with a scheduled post
\* in the table.
C6_Witness ==
    \E i \in Ids \ DOMAIN posts :
        /\ outcome[i] = "returned"
        /\ called[i] >= 1
        /\ \E k \in DOMAIN posts : posts[k].status = "scheduled"

\* The responses the claim calls malformed: no JSON; for the analysis, no
\* object; for the generation, no array, or an array with an element that is
\* no object with a 'post' field.
Malformed(op, resp) ==
    LET r == json_loads(resp)
    IN \/ ~r.ok
       \/ op = "analyze" /\ r.value.t # "dict"
       \/ op = "generate" /\ r.value.t # "list"
       \/ /\ op = "generate"
          /\ r.value.t = "list"
          /\ \E k \in DOMAIN r.value.v :
                \/ r.value.v[k].t # "dict"
                \/ "post" \notin DOMAIN r.value.v[k].v

\* C7: a script run that analyzes or generates on a malformed response ends
\* without an unhandled fault and adds no row to the posts table.
C7_MalformedRecovered ==
    [][ ( /\ page' # page
          /\ page'.op \in {"analyze", "generate"}
          /\ Malformed(page'.op, page'.resp) )
        => /\ page'.outcome # "fault"
           /\ posts' = posts
           /\ durable' = durable ]_vars

====
